---------------------------- MODULE Spec2Model ----------------------------
(* Hybrid real-estate search: the MongoDB structured filter, the Chroma     *)
(* vector index and the orchestrator of hybrid_search.py, together with the *)
(* ingestion path (pipeline, add, populate) that fills the two stores.      *)
EXTENDS Integers, Sequences, FiniteSets, TLC

(***************************************************************************)
(* Bounds of the model.                                                    *)
(***************************************************************************)
\* listings one MongoDB collection may hold
MaxListings == 2
\* largest limit / top_k a caller passes
MaxLimit == 2
\* most keys in the criteria of a direct filter call
MaxCriteria == 2

(***************************************************************************)
(* Python values.  Every dict value has the same shape so that values of   *)
(* different Python types can be compared: t is the type tag, n the number *)
(* (or 0/1 for a bool), s the string as a sequence of characters, l the    *)
(* elements of a list of numbers.  "absent" marks a key that is not in the *)
(* dict at all.                                                            *)
(***************************************************************************)
VAbsent == [t |-> "absent", n |-> 0, s |-> <<>>, l |-> {}]
VNone == [t |-> "none", n |-> 0, s |-> <<>>, l |-> {}]
VNum(x) == [t |-> "num", n |-> x, s |-> <<>>, l |-> {}]
VStr(cs) == [t |-> "str", n |-> 0, s |-> cs, l |-> {}]
VBool(b) == [t |-> "bool", n |-> IF b THEN 1 ELSE 0, s |-> <<>>, l |-> {}]
VList(S) == [t |-> "list", n |-> 0, s |-> <<>>, l |-> S]

\* bool(v): Python truthiness
Truthy(v) ==
    CASE v.t = "num" -> v.n # 0
      [] v.t = "str" -> v.s # <<>>
      [] v.t = "bool" -> v.n = 1
      [] v.t = "list" -> v.l # {}
      [] OTHER -> FALSE

\* d.get(k): None for a key that is absent
Get(d, k) == IF d[k].t = "absent" THEN VNone ELSE d[k]

\* d.get(k, default)
GetOr(d, k, default) == IF d[k].t = "absent" THEN default ELSE d[k]

\* the characters the model's strings are made of, in code-point order
Alphabet == <<" ", ".", "0", "1", "2", "9", "K", "W", "a", "b", "k", "r", "w", "x", "y">>

Ord(c) == CHOOSE i \in 1..Len(Alphabet) : Alphabet[i] = c

\* s1 <= s2 in Python's / MongoDB's string order (lexicographic by code point)
RECURSIVE StrLeq(_, _)
StrLeq(a, b) ==
    IF a = <<>> THEN TRUE
    ELSE IF b = <<>> THEN FALSE
    ELSE IF Head(a) = Head(b) THEN StrLeq(Tail(a), Tail(b))
    ELSE Ord(Head(a)) < Ord(Head(b))

DigitChar(d) == CASE d = 0 -> "0" [] d = 1 -> "1" [] d = 2 -> "2" [] OTHER -> "9"

\* str(n) for a non-negative int whose digits are among 0, 1, 2, 9
RECURSIVE PyStr(_)
PyStr(n) == IF n < 10 THEN <<DigitChar(n)>> ELSE PyStr(n \div 10) \o <<DigitChar(n % 10)>>

(***************************************************************************)
(* Listings.  A listing (a scraped item, a MongoDB document) is a dict     *)
(* with these keys; _id and link are plain strings, "" standing for None.  *)
(***************************************************************************)
Fields == {"title", "city", "price", "room_count", "space_sm", "building_type",
           "build_year", "has_garage"}

Wa == <<"W", "a">>
Kr == <<"K", "r">>

Listing(id, link, title, city, price, rooms, area, btype, year, garage) ==
    [_id |-> id, link |-> link, title |-> title, city |-> city, price |-> price,
     room_count |-> rooms, space_sm |-> area, building_type |-> btype,
     build_year |-> year, has_garage |-> garage]

\* the string made of a sequence of characters
RECURSIVE Join(_)
Join(cs) == IF cs = <<>> THEN "" ELSE Head(cs) \o Join(Tail(cs))

\* [0-9A-Za-z] over the characters links are made of
AlNum == {"0", "1", "2", "9", "A", "D", "I", "N", "a", "c", "d", "e", "x"}

\* link.split('?')[0]
RECURSIVE BeforeQuestionMark(_)
BeforeQuestionMark(cs) ==
    IF cs = <<>> \/ Head(cs) = "?" THEN <<>>
    ELSE <<Head(cs)>> \o BeforeQuestionMark(Tail(cs))

\* path.rstrip('/')
RECURSIVE RStripSlash(_)
RStripSlash(cs) ==
    IF cs # <<>> /\ cs[Len(cs)] = "/" THEN RStripSlash(SubSeq(cs, 1, Len(cs) - 1)) ELSE cs

\* extract_offer_id(link): the leftmost "ID" followed by letters and digits
\* up to the end of the path, or None ("") when there is none; the link is
\* a sequence of characters
ExtractOfferId(link) ==
    LET path == RStripSlash(BeforeQuestionMark(link))
        starts == {i \in 1..(Len(path) - 2) :
                      /\ path[i] = "I" /\ path[i + 1] = "D"
                      /\ \A j \in (i + 2)..Len(path) : path[j] \in AlNum}
    IN  IF link = <<>> \/ starts = {} THEN ""
        ELSE Join(SubSeq(path, CHOOSE i \in starts : \A j \in starts : i <= j, Len(path)))

\* the links of the cards on the result pages; a card without a link gets
\* the default 'N/A'
LinkA == <<"/", "I", "D", "a">>
LinkC == <<"/", "I", "D", "c", "/", "?", "x">>
LinkD == <<"/", "d">>
LinkE == <<"/", "x", "I", "D", "e">>
NoLink == <<"N", "/", "A">>

\* _parse_listing: the item of a card, its _id taken from its link
ParseListing(link, title, city, price, rooms, area, btype, year, garage) ==
    Listing(ExtractOfferId(link), Join(link), title, city, price, rooms, area, btype,
            year, garage)

\* the items the spiders hand to the pipeline
ItemA == ParseListing(LinkA, VStr(<<"x">>), VStr(Wa), VNum(5), VNum(2), VNum(3),
                      VStr(<<"b">>), VStr(PyStr(2000)), VBool(TRUE))
\* the same offer scraped again after its price and title changed
ItemA2 == ParseListing(LinkA, VStr(<<"y">>), VStr(Wa), VNum(9), VNum(2), VNum(3),
                       VStr(<<"b">>), VStr(PyStr(2000)), VBool(TRUE))
\* same price as ItemA, other text
ItemC == ParseListing(LinkC, VStr(<<"y">>), VStr(Wa), VNum(5), VNum(0), VNum(0),
                      VStr(<<"b">>), VStr(PyStr(1990)), VBool(FALSE))
\* price could not be parsed (None), no id in the link, no text
ItemD == ParseListing(LinkD, VNone, VNone, VNone, VNone, VNone, VNone, VNone, VAbsent)
\* an item that has no price key
ItemE == ParseListing(LinkE, VStr(<<"x">>), VStr(Kr), VAbsent, VNum(1), VNum(2),
                      VStr(<<"k">>), VStr(PyStr(2021)), VBool(TRUE))
\* two different offers whose cards have no link and the same title; the
\* flats differ in area
ItemN1 == ParseListing(NoLink, VStr(<<"x">>), VStr(Wa), VNum(5), VNum(2), VNum(3),
                       VStr(<<"b">>), VStr(PyStr(2000)), VBool(TRUE))
ItemN2 == ParseListing(NoLink, VStr(<<"x">>), VStr(Wa), VNum(5), VNum(2), VNum(2),
                       VStr(<<"b">>), VStr(PyStr(2000)), VBool(TRUE))
Items == {ItemA, ItemA2, ItemC, ItemD, ItemE, ItemN1, ItemN2}

Scopes == {"rent", "sale"}


(***************************************************************************)
(* State.                                                                  *)
(*   store  the two MongoDB collections, each a sequence of documents in   *)
(*          natural (insertion) order                                      *)
(*   index  the Chroma collection: a sequence of embedding records in      *)
(*          insertion order, each with its key, text and metadata          *)
(*   ret    the operation called last, its arguments (item: the listing    *)
(*          handed to process_item or add) and what it returned; for       *)
(*          populate also runs, which tells a run from its repetition      *)
(*   first  history: per key, the record the first successful add wrote    *)
(***************************************************************************)
VARIABLES store, index, ret, first

vars == <<store, index, ret, first>>

\* hashlib.md5(link).hexdigest(): a digest never has the form of an offer id
Md5(link) == "md5:" \o link

\* ids an embedding record can be stored under
Keys == {i._id : i \in Items} \cup {Md5(i.link) : i \in Items}

RetIdle ==
    [op |-> "idle", scope |-> "", cap |-> 0, runs |-> 0, limit |-> 0, query |-> VNone,
     filters |-> <<>>, ids |-> [given |-> FALSE, list |-> <<>>], fail |-> "none", raised |-> FALSE,
     value |-> <<>>, calls |-> <<>>, item |-> <<>>]

(***************************************************************************)
(* real_estate_embedding_function.py                                       *)
(***************************************************************************)
\* create_listing_text_for_embedding, prompt_style 1: the sections of the
\* text, each left out when its source field is empty
CreateListingText(d) ==
    (IF Truthy(Get(d, "title")) THEN <<[label |-> "title", text |-> d.title.s]>> ELSE <<>>)
    \o (IF Truthy(Get(d, "city")) THEN <<[label |-> "location", text |-> d.city.s]>> ELSE <<>>)

(***************************************************************************)
(* real_estate_vector_db.py: ingestion                                     *)
(***************************************************************************)
\* self.db.get(ids=[id]): the positions of the records stored under the id
DbGet(idx, id) == {i \in 1..Len(idx) : idx[i].key = id}

\* self.db.add_documents([document], ids=[id]): Chroma upserts by id
AddDocuments(idx, doc, id) ==
    LET rec == [key |-> id, content |-> doc.content, metadata |-> doc.metadata]
    IN  IF DbGet(idx, id) = {}
        THEN Append(idx, rec)
        ELSE [i \in 1..Len(idx) |-> IF idx[i].key = id THEN rec ELSE idx[i]]

\* the Document add_listing_to_vector_db builds for a listing
MakeDocument(d, ctype) ==
    [content |-> CreateListingText(d),
     metadata |-> [id |-> d._id, collection_type |-> ctype,
                   city |-> GetOr(d, "city", VStr(<<>>)),
                   room_count |-> Get(d, "room_count"),
                   price |-> Get(d, "price"),
                   building_type |-> GetOr(d, "building_type", VStr(<<>>))]]

\* what add_listing_to_vector_db did: the index after the call, whether the
\* call raised, and the records it wrote (one "added" log line each)
Skipped(idx) == [index |-> idx, raised |-> FALSE, added |-> <<>>]

Raised(idx) == [index |-> idx, raised |-> TRUE, added |-> <<>>]

Written(idx, doc, id) ==
    [index |-> AddDocuments(idx, doc, id), raised |-> FALSE,
     added |-> <<[key |-> id, content |-> doc.content, metadata |-> doc.metadata]>>]

\* a plausible slip: the existence check is gone, every add upserts
AddListingOverwrite(idx, d, ctype, fail) ==
    IF d._id = "" THEN Skipped(idx)
    ELSE IF fail = "get" THEN Raised(idx)
    ELSE IF fail = "add" THEN Skipped(idx)
    ELSE Written(idx, MakeDocument(d, ctype), d._id)

\* a plausible slip: ids=[listing_id] is not passed, so Chroma stores every
\* document under a generated key and the existence check never finds one
AddListingNoIds(idx, d, ctype, fail) ==
    IF d._id = "" THEN Skipped(idx)
    ELSE IF fail = "get" THEN Raised(idx)
    ELSE IF fail = "add" THEN Skipped(idx)
    ELSE LET rec == [key |-> "uuid", content |-> CreateListingText(d),
                     metadata |-> MakeDocument(d, ctype).metadata]
         IN  [index |-> Append(idx, rec), raised |-> FALSE, added |-> <<rec>>]

\* add_listing_to_vector_db(listing_data, collection_type).  fail says where
\* the index or embedding backend fails during this call: "get" in the
\* existence check (not caught: the call raises), "add" in add_documents
\* (caught and logged), "none" nowhere.
AddListingToVectorDb(idx, d, ctype, fail) ==
    IF d._id = "" THEN Skipped(idx)
    ELSE IF fail = "get" THEN Raised(idx)
    ELSE IF DbGet(idx, d._id) # {} THEN Skipped(idx)
    ELSE IF fail = "add" THEN Skipped(idx)
    ELSE Written(idx, MakeDocument(d, ctype), d._id)

\* cursor.limit(n) of MongoDB: a limit of 0 is no limit
MongoLimit(docs, n) == IF n = 0 \/ n >= Len(docs) THEN docs ELSE SubSeq(docs, 1, n)

\* the for loops of populate_from_mongo: add every listing in turn; the
\* backend fails (kind fail) while listing number failAt is processed
RECURSIVE AddAll(_, _, _, _, _)
AddAll(idx, todo, pos, failAt, fail) ==
    IF todo = <<>> THEN Skipped(idx)
    ELSE LET r == AddListingToVectorDb(idx, Head(todo).doc, Head(todo).ctype,
                                       IF pos = failAt THEN fail ELSE "none")
             rest == AddAll(r.index, Tail(todo), pos + 1, failAt, fail)
         IN  IF r.raised THEN r
             ELSE [rest EXCEPT !.added = r.added \o rest.added]

Tagged(docs, ctype) == [i \in 1..Len(docs) |-> [doc |-> docs[i], ctype |-> ctype]]

\* a plausible slip: the limit is not applied to the cursors
PopulateUncapped(idx, st, cap, failAt, fail) ==
    AddAll(idx, Tagged(st.rent, "rent") \o Tagged(st.sale, "sale"), 1, failAt, fail)

\* populate_from_mongo(limit): cap 0 stands for limit=None (and for 0)
PopulateFromMongo(idx, st, cap, failAt, fail) ==
    LET rent_listings == IF cap # 0 THEN MongoLimit(st.rent, cap) ELSE st.rent
        sale_listings == IF cap # 0 THEN MongoLimit(st.sale, cap) ELSE st.sale
    IN  AddAll(idx, Tagged(rent_listings, "rent") \o Tagged(sale_listings, "sale"),
               1, failAt, fail)


(***************************************************************************)
(* real_estate_vector_db.py: semantic_search                               *)
(***************************************************************************)
\* the multiplier of the pool semantic_search asks the index for
OverFetch == 20

\* the mongo_ids argument: None, or a list of ids
IdsNone == [given |-> FALSE, list |-> <<>>]

IdList(l) == [given |-> TRUE, list |-> l]

\* bool(mongo_ids): None and the empty list are both falsy
IdsTruthy(ids) == ids.given /\ ids.list # <<>>

InList(x, l) == \E i \in 1..Len(l) : l[i] = x

\* The embedding provider and the cosine distance of the index, as one fixed
\* function: the distance of a text from a query falls with every section
\* of the text that shares a character with the query.  0 is closest.
Distance(query, content) ==
    2 - Cardinality({i \in 1..Len(content) :
            \E j \in 1..Len(content[i].text), k \in 1..Len(query) :
                content[i].text[j] = query[k]})

\* (k1, k2) tuple order of Python
KeyLess(a, b) == a.k1 < b.k1 \/ (a.k1 = b.k1 /\ a.k2 < b.k2)

\* insert x into a sequence sorted by key, behind every element whose key is
\* not greater (which makes the sort stable)
RECURSIVE InsertSorted(_, _)
InsertSorted(sorted, x) ==
    IF sorted = <<>> THEN <<x>>
    ELSE IF KeyLess(x, Head(sorted)) THEN <<x>> \o sorted
    ELSE <<Head(sorted)>> \o InsertSorted(Tail(sorted), x)

\* sorted(seq, key): ascending in (k1, k2), stable; the elements are
\* [k1, k2, item] records
RECURSIVE StableSort(_)
StableSort(seq) ==
    IF seq = <<>> THEN <<>>
    ELSE InsertSorted(StableSort(SubSeq(seq, 1, Len(seq) - 1)), seq[Len(seq)])

Prefix(seq, n) == IF n >= Len(seq) THEN seq ELSE SubSeq(seq, 1, n)

\* a plausible slip: the index hands out the pool farthest first
SimilarityFarthestFirst(idx, query, k, ctype) ==
    LET pass(r) == ctype = "" \/ r.metadata.collection_type = ctype
        scored == [i \in 1..Len(idx) |->
                      [k1 |-> 0 - Distance(query, idx[i].content), k2 |-> 0, item |-> idx[i]]]
        ranked == StableSort(SelectSeq(scored, LAMBDA p : pass(p.item)))
    IN  Prefix([i \in 1..Len(ranked) |-> [doc |-> ranked[i].item, score |-> 0 - ranked[i].k1]], k)

\* self.db.similarity_search_with_score(query, k, filter): the k records
\* nearest to the query among those the metadata filter lets through, as
\* (document, distance) pairs, nearest first
SimilaritySearchWithScore(idx, query, k, ctype) ==
    LET pass(r) == ctype = "" \/ r.metadata.collection_type = ctype
        scored == [i \in 1..Len(idx) |->
                      [k1 |-> Distance(query, idx[i].content), k2 |-> 0, item |-> idx[i]]]
        ranked == StableSort(SelectSeq(scored, LAMBDA p : pass(p.item)))
    IN  Prefix([i \in 1..Len(ranked) |-> [doc |-> ranked[i].item, score |-> ranked[i].k1]], k)

\* the loop of semantic_search over the pool: keep the documents whose id is
\* in mongo_ids (when given), stop once top_k are kept
RECURSIVE FormatResults(_, _, _, _)
FormatResults(results, mongo_ids, top_k, formatted) ==
    IF results = <<>> THEN formatted
    ELSE LET doc == Head(results).doc
             doc_id == doc.metadata.id
             kept == Append(formatted, [id |-> doc_id, score |-> Head(results).score,
                                        content |-> doc.content, metadata |-> doc.metadata])
         IN  IF IdsTruthy(mongo_ids) /\ ~InList(doc_id, mongo_ids.list)
             THEN FormatResults(Tail(results), mongo_ids, top_k, formatted)
             ELSE IF Len(kept) >= top_k THEN kept
             ELSE FormatResults(Tail(results), mongo_ids, top_k, kept)

\* search_k: the size of the pool semantic_search asks the index for
SearchK(mongo_ids, top_k) == IF IdsTruthy(mongo_ids) THEN top_k * OverFetch ELSE top_k

\* semantic_search(query, collection_type, mongo_ids, top_k).  ctype "" is
\* collection_type=None.  up: the index and the embedding provider answer;
\* Chroma refuses a pool of 0.  Either failure is caught and gives [].
SemanticSearch(idx, query, ctype, mongo_ids, top_k, up) ==
    LET search_k == SearchK(mongo_ids, top_k)
    IN  IF ~up \/ search_k = 0 THEN <<>>
        ELSE FormatResults(SimilaritySearchWithScore(idx, query, search_k, ctype),
                           mongo_ids, top_k, <<>>)

(***************************************************************************)
(* hybrid_search.py: _mongodb_filter                                       *)
(*                                                                         *)
(* The criteria are a Python dict: a sequence of [k, v] pairs with         *)
(* distinct keys, in insertion order.  None and {} are both <<>>.          *)
(***************************************************************************)
\* filters.get(key)
FGet(filters, key) ==
    IF \E i \in 1..Len(filters) : filters[i].k = key
    THEN filters[CHOOSE i \in 1..Len(filters) : filters[i].k = key].v
    ELSE VNone

\* mongo_limit when a query is given: the size of the candidate pool
MongoPoolLimit == 10000

\* the document fields a query can constrain
QueryFields == {"city", "room_count", "price", "space_sm", "building_type",
                "build_year", "has_garage"}

\* one entry of mongo_query: no constraint on the field, {"$regex", "i"},
\* a value to equal, {"$in": list}, or {"$gte": .., "$lte": ..} where a
\* bound that is not set is VAbsent
NoClause == [op |-> "any", v |-> VAbsent, gte |-> VAbsent, lte |-> VAbsent]

Regex(v) == [op |-> "regex", v |-> v, gte |-> VAbsent, lte |-> VAbsent]

Equals(v) == [op |-> "eq", v |-> v, gte |-> VAbsent, lte |-> VAbsent]

In(v) == [op |-> "in", v |-> v, gte |-> VAbsent, lte |-> VAbsent]

Range(lo, hi) == [op |-> "range", v |-> VAbsent, gte |-> lo, lte |-> hi]

\* price_filter / area_filter / build_year_filter: the bounds that are truthy
Bounds(lo, hi) ==
    Range(IF Truthy(lo) THEN lo ELSE VAbsent, IF Truthy(hi) THEN hi ELSE VAbsent)

\* str(year) of a year bound
YearStr(v) == IF v.t = "num" THEN VStr(PyStr(v.n)) ELSE v

\* a plausible slip: mongo_query is assigned anew for every key of the
\* criteria, in insertion order, so only the key inserted last constrains
QueryOfLastKey(filters) ==
    LET last == filters[Len(filters)]
        field == IF last.k = "rooms" THEN "room_count" ELSE last.k
    IN  [f \in QueryFields |->
            IF filters # <<>> /\ f = field /\ last.v.t # "none"
            THEN Equals(last.v) ELSE NoClause]

\* the mongo_query _mongodb_filter builds, field by field in the order of
\* the code; build_year is written twice, the later write wins
BuildQuery(filters) ==
    LET city == FGet(filters, "city")
        rooms == FGet(filters, "rooms")
        price == Bounds(FGet(filters, "min_price"), FGet(filters, "max_price"))
        area == Bounds(FGet(filters, "min_area"), FGet(filters, "max_area"))
        btype == FGet(filters, "building_type")
        minYear == FGet(filters, "min_year")
        minBuild == FGet(filters, "min_build_year")
        maxBuild == FGet(filters, "max_build_year")
        garage == FGet(filters, "has_garage")
    IN  [f \in QueryFields |->
            CASE f = "city" -> IF Truthy(city) THEN Regex(city) ELSE NoClause
              [] f = "room_count" ->
                    IF ~Truthy(rooms) THEN NoClause
                    ELSE IF rooms.t = "list" THEN In(rooms) ELSE Equals(rooms)
              [] f = "price" ->
                    IF price.gte.t = "absent" /\ price.lte.t = "absent" THEN NoClause ELSE price
              [] f = "space_sm" ->
                    IF area.gte.t = "absent" /\ area.lte.t = "absent" THEN NoClause ELSE area
              [] f = "building_type" -> IF Truthy(btype) THEN Equals(btype) ELSE NoClause
              [] f = "build_year" ->
                    IF Truthy(minBuild) \/ Truthy(maxBuild)
                    THEN Range(IF Truthy(minBuild) THEN YearStr(minBuild) ELSE VAbsent,
                               IF Truthy(maxBuild) THEN YearStr(maxBuild) ELSE VAbsent)
                    ELSE IF Truthy(minYear) THEN Range(YearStr(minYear), VAbsent)
                    ELSE NoClause
              [] OTHER -> IF garage.t # "none" THEN Equals(garage) ELSE NoClause]

Lower(c) == CASE c = "W" -> "w" [] c = "K" -> "k" [] OTHER -> c

\* re.search with option i, for patterns of literal characters and "."
RegexSearch(pattern, text) ==
    \E start \in 0..(Len(text) - Len(pattern)) :
        \A i \in 1..Len(pattern) :
            pattern[i] = "." \/ Lower(pattern[i]) = Lower(text[start + i])

\* value >= bound / value <= bound in MongoDB: only values of the bound's
\* own type are compared, a missing or null field matches no bound
AtLeast(value, bound) ==
    \/ bound.t = "absent"
    \/ bound.t = "num" /\ value.t = "num" /\ value.n >= bound.n
    \/ bound.t = "str" /\ value.t = "str" /\ StrLeq(bound.s, value.s)

AtMost(value, bound) ==
    \/ bound.t = "absent"
    \/ bound.t = "num" /\ value.t = "num" /\ value.n <= bound.n
    \/ bound.t = "str" /\ value.t = "str" /\ StrLeq(value.s, bound.s)

\* does a field value satisfy one entry of the query
ClauseMatches(value, c) ==
    CASE c.op = "any" -> TRUE
      [] c.op = "regex" -> value.t = "str" /\ c.v.t = "str" /\ RegexSearch(c.v.s, value.s)
      [] c.op = "eq" -> value = c.v
      [] c.op = "in" -> value.t = "num" /\ value.n \in c.v.l
      [] OTHER -> AtLeast(value, c.gte) /\ AtMost(value, c.lte)

\* collection.find(mongo_query): the documents matching every entry, in
\* natural order
Find(docs, query) ==
    SelectSeq(docs, LAMBDA d : \A f \in QueryFields : ClauseMatches(d[f], query[f]))

\* _mongodb_filter(collection, filters, limit); up: the store answers (a
\* failure is caught and gives [])
MongodbFilter(docs, filters, limit, up) ==
    IF ~up THEN <<>> ELSE MongoLimit(Find(docs, BuildQuery(filters)), limit)

(***************************************************************************)
(* hybrid_search.py: search                                                *)
(***************************************************************************)
\* a plausible slip: the listing type is not looked at
CollectionsAlwaysBoth(listing_type) == <<"rent", "sale">>

\* a plausible slip: a purchase search goes to the sale collection
CollectionsBuyIsSale(listing_type) ==
    IF listing_type = "rent" THEN <<"rent">>
    ELSE IF listing_type \in {"sale", "buy"} THEN <<"sale">>
    ELSE <<"rent", "sale">>

\* _get_collections_to_search(listing_type): the scopes, in dict order
CollectionsToSearch(listing_type) ==
    IF listing_type = "rent" THEN <<"rent">>
    ELSE IF listing_type = "sale" THEN <<"sale">>
    ELSE <<"rent", "sale">>

\* str.strip()
RECURSIVE LStrip(_)
LStrip(cs) == IF cs # <<>> /\ Head(cs) = " " THEN LStrip(Tail(cs)) ELSE cs

RECURSIVE RStrip(_)
RStrip(cs) ==
    IF cs # <<>> /\ cs[Len(cs)] = " " THEN RStrip(SubSeq(cs, 1, Len(cs) - 1)) ELSE cs

Strip(cs) == RStrip(LStrip(cs))

\* a plausible slip: the query tested without strip()
HasQueryUnstripped(query) == Truthy(query)

\* semantic_query and semantic_query.strip()
HasQuery(query) == Truthy(query) /\ Strip(query.s) # <<>>

\* the copy of a document with the three result keys set
Tag(doc, score, ctype, relevance) ==
    [semantic_score |-> score, collection_type |-> ctype,
     search_relevance |-> relevance] @@ doc

\* a result without its three result keys: the document it was copied from
Untag(r) == [f \in DOMAIN r \ {"semantic_score", "collection_type", "search_relevance"} |-> r[f]]

\* mongo_dict[listing_id]: of the documents with the id, the last one
Lookup(mongo_results, id) ==
    LET at == {i \in 1..Len(mongo_results) : mongo_results[i]._id = id}
    IN  mongo_results[CHOOSE i \in at : \A j \in at : j <= i]

\* a plausible slip: the filtered listings the reranker did not return are
\* kept, with score 0
CombineKeepingUnranked(mongo_results, vector_results, ctype) ==
    [i \in 1..Len(mongo_results) |->
        LET at == {j \in 1..Len(vector_results) : vector_results[j].id = mongo_results[i]._id}
        IN  Tag(mongo_results[i],
                IF at = {} THEN 0 ELSE vector_results[CHOOSE j \in at : TRUE].score,
                ctype, "hybrid_match")]

\* _combine_mongo_and_vector_results
RECURSIVE CombineMongoAndVectorResults(_, _, _)
CombineMongoAndVectorResults(mongo_results, vector_results, ctype) ==
    IF vector_results = <<>> THEN <<>>
    ELSE LET vr == Head(vector_results)
             rest == CombineMongoAndVectorResults(mongo_results, Tail(vector_results), ctype)
         IN  IF \E i \in 1..Len(mongo_results) : mongo_results[i]._id = vr.id
             THEN <<Tag(Lookup(mongo_results, vr.id), vr.score, ctype, "hybrid_match")>> \o rest
             ELSE rest

\* _format_mongo_results
FormatMongoResults(mongo_results, ctype) ==
    [i \in 1..Len(mongo_results) |-> Tag(mongo_results[i], 0, ctype, "filter_match")]

\* -price in sort_key raises TypeError for a price that is no number
SortKeyRaises(item) == item.price.t \notin {"absent", "num"}

\* a plausible slip: the price tie-break ascending
SortKeyCheapFirst(item) ==
    [k1 |-> 0 - item.semantic_score,
     k2 |-> GetOr(item, "price", VNum(0)).n,
     item |-> item]

\* a plausible slip: the price left out of the key
SortKeyScoreOnly(item) == [k1 |-> 0 - item.semantic_score, k2 |-> 0, item |-> item]

\* sort_key(item): (-semantic_score, -price), a missing price counting as 0
SortKey(item) ==
    [k1 |-> 0 - item.semantic_score,
     k2 |-> 0 - GetOr(item, "price", VNum(0)).n,
     item |-> item]

\* a plausible slip: the slice [:limit] forgotten
RankWithoutLimit(results, limit) ==
    LET sorted_results == StableSort([i \in 1..Len(results) |-> SortKey(results[i])])
    IN  IF \E i \in 1..Len(results) : SortKeyRaises(results[i])
        THEN [raised |-> TRUE, value |-> <<>>]
        ELSE [raised |-> FALSE,
              value |-> [i \in 1..Len(sorted_results) |-> sorted_results[i].item]]

\* _rank_and_limit_results(results, limit)
RankAndLimitResults(results, limit) ==
    LET sorted_results == StableSort([i \in 1..Len(results) |-> SortKey(results[i])])
    IN  IF \E i \in 1..Len(results) : SortKeyRaises(results[i])
        THEN [raised |-> TRUE, value |-> <<>>]
        ELSE [raised |-> FALSE,
              value |-> Prefix([i \in 1..Len(sorted_results) |-> sorted_results[i].item], limit)]

Min(a, b) == IF a <= b THEN a ELSE b

\* a plausible slip: full_listing is the document itself, not a copy of it,
\* so the three keys land in the documents the filter returned
CombineInPlace(mongo_results, vector_results, ctype) ==
    [i \in 1..Len(mongo_results) |->
        LET at == {j \in 1..Len(vector_results) :
                      /\ vector_results[j].id = mongo_results[i]._id
                      /\ Lookup(mongo_results, vector_results[j].id) = mongo_results[i]}
        IN  IF at = {} THEN mongo_results[i]
            ELSE Tag(mongo_results[i],
                     vector_results[CHOOSE j \in at : \A k \in at : k <= j].score,
                     ctype, "hybrid_match")]

\* the documents of mongo_results once _combine_mongo_and_vector_results has
\* run: the keys are set on full_listing, a copy() of the document, so the
\* documents the filter returned stay as they were
AfterCombine(mongo_results, vector_results, ctype) == mongo_results

\* the documents of mongo_results once _format_mongo_results has run: the
\* keys are set on result_copy
AfterFormat(mongo_results, ctype) == mongo_results

\* the store query fails for the collection: the whole store is down, or
\* the query on this collection alone
StoreDown(env, scope) == env = "mongo" \/ env = "mongo:" \o scope

\* a plausible slip: the filter always runs with the caller's limit
MongoLimitOfCaller(query, limit) == limit

\* mongo_limit: the pool limit when a query is given, else the caller's limit
MongoLimitFor(query, limit) == IF HasQuery(query) THEN MongoPoolLimit ELSE limit

\* a plausible slip: the test for an empty id list is gone, the reranker is
\* called for every scope of a search with a query
SearchScopeAlwaysReranks(st, idx, filters, query, scope, limit, env) ==
    LET mongo_limit == MongoLimitFor(query, limit)
        mongo_results == MongodbFilter(st[scope], filters, mongo_limit, ~StoreDown(env, scope))
        mongo_ids == [i \in 1..Len(mongo_results) |-> mongo_results[i]._id]
        top_k == Min(limit, Len(mongo_ids))
        vector_results == SemanticSearch(idx, query.s, scope, IdList(mongo_ids), top_k,
                                         env # "index")
    IN  IF HasQuery(query)
        THEN [scope |-> scope, mongo_limit |-> mongo_limit, mongo_results |-> mongo_results,
              reranked |-> TRUE, top_k |-> top_k, vector_results |-> vector_results,
              combined |-> CombineMongoAndVectorResults(mongo_results, vector_results, scope)]
        ELSE [scope |-> scope, mongo_limit |-> mongo_limit, mongo_results |-> mongo_results,
              reranked |-> FALSE, top_k |-> 0, vector_results |-> <<>>,
              combined |-> FormatMongoResults(mongo_results, scope)]

\* one pass of the loop of search over a scope: what the filter returned
\* (the documents as they stand at the end of the pass), whether and how
\* the reranker was called, and the scope's results
SearchScope(st, idx, filters, query, scope, limit, env) ==
    LET mongo_limit == MongoLimitFor(query, limit)
        mongo_results == MongodbFilter(st[scope], filters, mongo_limit, ~StoreDown(env, scope))
        mongo_ids == [i \in 1..Len(mongo_results) |-> mongo_results[i]._id]
        top_k == Min(limit, Len(mongo_ids))
        vector_results == SemanticSearch(idx, query.s, scope, IdList(mongo_ids), top_k,
                                         env # "index")
    IN  IF mongo_ids = <<>>
        THEN [scope |-> scope, mongo_limit |-> mongo_limit, mongo_results |-> mongo_results,
              reranked |-> FALSE, top_k |-> 0, vector_results |-> <<>>, combined |-> <<>>]
        ELSE IF HasQuery(query)
        THEN [scope |-> scope, mongo_limit |-> mongo_limit,
              mongo_results |-> AfterCombine(mongo_results, vector_results, scope),
              reranked |-> TRUE, top_k |-> top_k, vector_results |-> vector_results,
              combined |-> CombineMongoAndVectorResults(mongo_results, vector_results, scope)]
        ELSE [scope |-> scope, mongo_limit |-> mongo_limit,
              mongo_results |-> AfterFormat(mongo_results, scope),
              reranked |-> FALSE, top_k |-> 0, vector_results |-> <<>>,
              combined |-> FormatMongoResults(mongo_results, scope)]

RECURSIVE Concat(_)
Concat(seqs) == IF seqs = <<>> THEN <<>> ELSE Head(seqs) \o Concat(Tail(seqs))

\* a plausible slip: one try around the whole loop, so a store failure in
\* one collection ends the search with an empty list
SearchAbortingOnFailure(st, idx, filters, query, listing_type, limit, env) ==
    LET scopes == CollectionsToSearch(listing_type)
        calls == [i \in 1..Len(scopes) |->
                    SearchScope(st, idx, filters, query, scopes[i], limit, env)]
        all_results == Concat([i \in 1..Len(calls) |-> calls[i].combined])
        final == RankAndLimitResults(all_results, limit)
    IN  IF \E i \in 1..Len(scopes) : StoreDown(env, scopes[i])
        THEN [raised |-> FALSE, value |-> <<>>, calls |-> <<>>]
        ELSE [raised |-> final.raised, value |-> final.value, calls |-> calls]

\* search(filters, semantic_query, listing_type, limit).  env: "mongo" the
\* store is down, "mongo:rent" the query on the rent collection fails,
\* "index" the index is down, "none" all answer.  calls is the record of
\* the loop, one entry per scope searched.
Search(st, idx, filters, query, listing_type, limit, env) ==
    LET scopes == CollectionsToSearch(listing_type)
        calls == [i \in 1..Len(scopes) |->
                    SearchScope(st, idx, filters, query, scopes[i], limit, env)]
        all_results == Concat([i \in 1..Len(calls) |-> calls[i].combined])
        final == RankAndLimitResults(all_results, limit)
    IN  [raised |-> final.raised, value |-> final.value, calls |-> calls]

(***************************************************************************)
(* hybrid_pipeline.py                                                      *)
(***************************************************************************)
\* collection.update_one({'_id': id}, {'$set': dict(item)}, upsert=True):
\* the keys of the item overwrite those of the stored document, which keeps
\* its place; a new document goes to the end
UpdateOne(docs, item) ==
    LET at == {i \in 1..Len(docs) : docs[i]._id = item._id}
        merged(old) ==
            [f \in DOMAIN old |->
                IF f \in Fields /\ item[f].t = "absent" THEN old[f] ELSE item[f]]
    IN  IF at = {}
        THEN [docs |-> Append(docs, item), upserted |-> TRUE, modified |-> FALSE]
        ELSE [docs |-> [i \in 1..Len(docs) |-> IF i \in at THEN merged(docs[i]) ELSE docs[i]],
              upserted |-> FALSE,
              modified |-> \E i \in at : merged(docs[i]) # docs[i]]

\* _has_text_content(item)
HasTextContent(item) == Truthy(Get(item, "title"))

\* open_spider: the collection a spider's items go to
SpiderScope(spider) == IF spider = "RentSpider" THEN "rent" ELSE "sale"

\* a plausible slip: the fallback id is left out
ProcessItemNoFallback(st, idx, spider, item, env) ==
    LET ctype == SpiderScope(spider)
        u == UpdateOne(st[ctype], item)
        r == IF env # "novdb" /\ HasTextContent(item) /\ (u.upserted \/ u.modified)
             THEN AddListingToVectorDb(idx, item, ctype, env)
             ELSE Skipped(idx)
    IN  IF env = "mongo"
        THEN [store |-> st, index |-> idx, added |-> <<>>]
        ELSE [store |-> [st EXCEPT ![ctype] = u.docs], index |-> r.index,
              added |-> r.added]

\* a plausible slip: the failed upsert does not end the call, the item goes
\* on to the vector DB
ProcessItemAddsAnyway(st, idx, spider, item, env) ==
    LET it == IF item._id = "" THEN [item EXCEPT !._id = Md5(item.link)] ELSE item
        ctype == SpiderScope(spider)
        u == UpdateOne(st[ctype], it)
        r == IF env # "novdb" /\ HasTextContent(it) /\ (u.upserted \/ u.modified)
             THEN AddListingToVectorDb(idx, it, ctype, IF env = "mongo" THEN "none" ELSE env)
             ELSE Skipped(idx)
    IN  IF env = "mongo"
        THEN [store |-> st, index |-> r.index, added |-> r.added]
        ELSE [store |-> [st EXCEPT ![ctype] = u.docs], index |-> r.index,
              added |-> r.added]

\* process_item(item, spider).  env is the state of the backends during the
\* call: "mongo" the store refuses the upsert, "novdb" open_spider could not
\* create the vector DB, "get" / "add" as in add, "none" all is well.
ProcessItemResult(st, idx, spider, item, env) ==
    LET it == IF item._id = "" THEN [item EXCEPT !._id = Md5(item.link)] ELSE item
        ctype == SpiderScope(spider)
        u == UpdateOne(st[ctype], it)
        r == IF env # "novdb" /\ HasTextContent(it) /\ (u.upserted \/ u.modified)
             THEN AddListingToVectorDb(idx, it, ctype, env)
             ELSE Skipped(idx)
    IN  IF env = "mongo"
        THEN [store |-> st, index |-> idx, added |-> <<>>]
        ELSE [store |-> [st EXCEPT ![ctype] = u.docs], index |-> r.index,
              added |-> r.added]

(***************************************************************************)
(* The ingestion system: scraped items arrive through the pipeline, and    *)
(* the index is filled by the pipeline, by direct adds and by populate.    *)
(***************************************************************************)
\* the items and listings fed to the ingestion operations
IngestItems == {ItemA, ItemA2, ItemD, ItemN1, ItemN2}

Spiders == {"RentSpider", "SaleSpider"}

Failures == {"none", "get", "add"}

\* history: remember, per key, the first record written under it
RECURSIVE NoteFirst(_, _)
NoteFirst(f, added) ==
    IF added = <<>> THEN f
    ELSE LET k == Head(added).metadata.id
         IN  NoteFirst(IF f[k] = <<>> THEN [f EXCEPT ![k] = <<Head(added)>>] ELSE f,
                       Tail(added))

Init ==
    /\ store = [rent |-> <<>>, sale |-> <<>>]
    /\ index = <<>>
    /\ ret = RetIdle
    /\ first = [k \in Keys |-> <<>>]

\* would the collection of the spider still take the item
Fits(st, spider, item) ==
    LET id == IF item._id = "" THEN Md5(item.link) ELSE item._id
        docs == st[SpiderScope(spider)]
    IN  Len(docs) < MaxListings \/ \E i \in 1..Len(docs) : docs[i]._id = id

\* the calls of process_item: the cards without a link are on the rent
\* pages, the card whose link holds no id is on the sale pages; the store
\* refuses the upsert of one item only
IngestCalls ==
    {c \in [spider : Spiders, item : IngestItems, env : Failures \cup {"mongo", "novdb"}] :
        /\ c.item \in {ItemN1, ItemN2} => (c.spider = "RentSpider" /\ c.env = "none")
        /\ c.item = ItemD => c.spider = "SaleSpider"
        /\ c.env = "mongo" => c.item = ItemA}

\* the direct calls of add_listing_to_vector_db; the backend fails while
\* one of the listings is added
AddCalls ==
    {c \in [d : {ItemA, ItemA2, ItemD}, ctype : Scopes, fail : Failures] :
        c.fail # "none" => c.d = ItemA}

\* the calls of populate_from_mongo; the backend fails in rebuilds without
\* a limit
PopulateCalls ==
    {c \in [cap : 0..MaxListings, fail : Failures] : c.fail # "none" => c.cap = 0}

ProcessItem ==
    \E c \in IngestCalls :
        /\ Fits(store, c.spider, c.item)
        /\ LET r == ProcessItemResult(store, index, c.spider, c.item, c.env)
           IN  /\ store' = r.store
               /\ index' = r.index
               /\ first' = NoteFirst(first, r.added)
        /\ ret' = [RetIdle EXCEPT !.op = "process_item", !.item = <<c.item>>,
                                  !.scope = SpiderScope(c.spider), !.fail = c.env]

AddListing ==
    \E c \in AddCalls :
        LET r == AddListingToVectorDb(index, c.d, c.ctype, c.fail)
        IN  /\ index' = r.index
            /\ first' = NoteFirst(first, r.added)
            /\ ret' = [RetIdle EXCEPT !.op = "add", !.raised = r.raised, !.item = <<c.d>>]
            /\ UNCHANGED store

\* populate with this cap follows a populate with the same cap, and the
\* backends fail in neither
Repeats(cap, fail) ==
    ret.op = "populate" /\ ret.cap = cap /\ ret.fail = "none" /\ fail = "none"

Populate ==
    \E c \in PopulateCalls :
        LET failAt == IF c.fail = "none" THEN 0 ELSE 1
            r == PopulateFromMongo(index, store, c.cap, failAt, c.fail)
        IN  /\ index' = r.index
            /\ first' = NoteFirst(first, r.added)
            /\ ret' = [RetIdle EXCEPT !.op = "populate", !.cap = c.cap,
                                      !.raised = r.raised, !.fail = c.fail,
                                      !.runs = IF Repeats(c.cap, c.fail) THEN 2 ELSE 1]
            /\ UNCHANGED store

Next == ProcessItem \/ AddListing \/ Populate

Spec == Init /\ [][Next]_vars


\* ingestion through the pipeline and the bulk rebuild alone, without
\* direct calls of add
NextPipeline == ProcessItem \/ Populate

SpecPipeline == Init /\ [][NextPipeline]_vars


(***************************************************************************)
(* The query system: over stores and indexes that ingestion has filled,    *)
(* callers run search, semantic_search and _mongodb_filter.  Calls do not  *)
(* overlap: a call is made when the previous one has returned.             *)
(***************************************************************************)
\* what the rent spider and the sale spider have scraped
RentPool == {ItemA, ItemE}

SalePool == {ItemA2, ItemC, ItemD}

\* the sequences of at most MaxListings different items of a pool
ItemSeqs(pool) ==
    {q \in UNION {[1..n -> pool] : n \in 0..MaxListings} :
        \A i, j \in 1..Len(q) : i # j => q[i] # q[j]}

\* a crawl: the spider's items go through process_item one after another
RECURSIVE Crawl(_, _, _, _, _)
Crawl(st, idx, spider, items, env) ==
    IF items = <<>> THEN [store |-> st, index |-> idx]
    ELSE LET r == ProcessItemResult(st, idx, spider, Head(items), env)
         IN  Crawl(r.store, r.index, spider, Tail(items), env)

\* how the index was filled: not at all, by the pipeline as the rent crawl
\* and then the sale crawl ran, or afterwards by populate with a cap of one
\* record
IndexModes == {"empty", "pipeline", "populate"}

Ingested(rs, ss, mode) ==
    LET empty == [rent |-> <<>>, sale |-> <<>>]
        env == IF mode = "pipeline" THEN "none" ELSE "novdb"
        r1 == Crawl(empty, <<>>, "RentSpider", rs, env)
        r2 == Crawl(r1.store, r1.index, "SaleSpider", ss, env)
    IN  IF mode = "populate"
        THEN [store |-> r2.store,
              index |-> PopulateFromMongo(<<>>, r2.store, 1, 0, "none").index]
        ELSE r2

InitSearch ==
    /\ \E rs \in ItemSeqs(RentPool), ss \in ItemSeqs(SalePool), mode \in IndexModes :
          LET r == Ingested(rs, ss, mode)
          IN  store = r.store /\ index = r.index
    /\ ret = RetIdle
    /\ first = [k \in Keys |-> <<>>]

F(k, v) == [k |-> k, v |-> v]

\* the criteria the callers of search pass
SearchFilters ==
    {<<>>, <<F("city", VStr(<<"w">>))>>, <<F("max_price", VNum(5))>>,
     <<F("has_garage", VBool(TRUE))>>, <<F("min_price", VNum(9)), F("rooms", VNum(1))>>}

\* non-overlapping equality criteria: every sequence of at most MaxCriteria
\* of these pairs with different keys
EqualityPairs ==
    {F("rooms", VNum(2)), F("building_type", VStr(<<"b">>)),
     F("has_garage", VBool(TRUE)), F("has_garage", VBool(FALSE))}

EqualityFilters ==
    {q \in UNION {[1..n -> EqualityPairs] : n \in 0..MaxCriteria} :
        \A i, j \in 1..Len(q) : i # j => q[i].k # q[j].k}

\* criteria with bounds, lists, zeros, overlapping year keys, a city text
\* that holds a full stop, and a price bound that is no number
OtherFilters ==
    {<<F("city", VStr(Wa))>>, <<F("city", VStr(<<"r">>))>>,
     <<F("city", VStr(<<"W", ".">>))>>,
     <<F("rooms", VNum(0))>>, <<F("rooms", VList({1, 2}))>>,
     <<F("min_price", VNum(9))>>, <<F("max_price", VNum(5))>>,
     <<F("min_price", VNum(5)), F("max_price", VNum(5))>>,
     <<F("max_price", VNum(0))>>, <<F("min_price", VNum(0))>>,
     <<F("min_area", VNum(3))>>, <<F("max_area", VNum(2))>>, <<F("max_area", VNum(0))>>,
     <<F("min_year", VNum(2010))>>, <<F("max_build_year", VNum(2000))>>,
     <<F("min_build_year", VNum(2000)), F("max_build_year", VNum(2020))>>,
     <<F("min_year", VNum(2010)), F("max_build_year", VNum(2021))>>,
     <<F("city", VStr(Wa)), F("max_price", VNum(5)), F("has_garage", VBool(TRUE))>>,
     <<F("max_price", VStr(<<"x">>))>>,
     <<F("city", VStr(Wa)), F("max_price", VStr(<<"x">>))>>}

FilterChoices == EqualityFilters \cup OtherFilters

\* free-text queries: none, empty, blank, and some with text
Queries ==
    {VNone, VStr(<<>>), VStr(<<" ">>), VStr(<<"x">>), VStr(<<" ", "y", "W">>)}

\* the listing types callers pass; "buy" is what the purchase searches of
\* the repository's test callers pass
ListingTypes == {"rent", "sale", "both", "buy"}

IdChoices == {IdsNone, IdList(<<>>), IdList(<<"IDa">>), IdList(<<"IDe", "IDc">>)}

\* the backends fail in some calls only
SearchCalls ==
    {c \in [filters : SearchFilters, query : Queries, listing_type : ListingTypes,
            limit : 0..MaxLimit, env : {"none", "mongo", "mongo:rent", "index"}] :
        c.env = "none" \/ (c.filters = <<>> /\ c.limit = MaxLimit)}

SemanticCalls ==
    {c \in [query : {q \in Queries : HasQuery(q)}, ctype : Scopes \cup {""},
            mongo_ids : IdChoices, top_k : 0..MaxLimit, up : BOOLEAN] :
        c.up \/ (c.mongo_ids = IdsNone /\ c.top_k = MaxLimit)}

FilterCalls ==
    {c \in [scope : Scopes, filters : FilterChoices, limit : 0..MaxLimit, up : BOOLEAN] :
        c.up \/ (c.filters = <<>> /\ c.limit = MaxLimit)}

CallSearch ==
    \E c \in SearchCalls :
        LET r == Search(store, index, c.filters, c.query, c.listing_type, c.limit, c.env)
        IN  /\ ret.op = "idle"
            /\ ret' = [RetIdle EXCEPT !.op = "search", !.filters = c.filters,
                                      !.query = c.query, !.scope = c.listing_type,
                                      !.limit = c.limit, !.fail = c.env,
                                      !.raised = r.raised, !.value = r.value,
                                      !.calls = r.calls]
            /\ UNCHANGED <<store, index, first>>

CallSemanticSearch ==
    \E c \in SemanticCalls :
        /\ ret.op = "idle"
        /\ ret' = [RetIdle EXCEPT !.op = "semantic_search", !.query = c.query,
                                  !.scope = c.ctype, !.ids = c.mongo_ids, !.limit = c.top_k,
                                  !.fail = IF c.up THEN "none" ELSE "index",
                                  !.value = SemanticSearch(index, c.query.s, c.ctype,
                                                           c.mongo_ids, c.top_k, c.up)]
        /\ UNCHANGED <<store, index, first>>

CallMongodbFilter ==
    \E c \in FilterCalls :
        /\ ret.op = "idle"
        /\ ret' = [RetIdle EXCEPT !.op = "filter", !.scope = c.scope, !.filters = c.filters,
                                  !.limit = c.limit, !.fail = IF c.up THEN "none" ELSE "mongo",
                                  !.value = MongodbFilter(store[c.scope], c.filters, c.limit,
                                                          c.up)]
        /\ UNCHANGED <<store, index, first>>

\* the caller takes the returned list and goes on
Return ==
    /\ ret.op # "idle"
    /\ ret' = RetIdle
    /\ UNCHANGED <<store, index, first>>

NextSearch == CallSearch \/ CallSemanticSearch \/ CallMongodbFilter \/ Return

SpecSearch == InitSearch /\ [][NextSearch]_vars


(***************************************************************************)
(* Properties                                                              *)
(***************************************************************************)
Returned(op) == ret.op = op /\ ~ret.raised

\* the price a result is ranked by: 0 when it has none
PriceOrZero(r) == IF r.price.t = "num" THEN r.price.n ELSE 0

\* C1: semantic_search called with a candidate id list S (the empty list
\* included) returns only results whose id is in S, and at most top_k of
\* them, whatever the index holds.
C1_OnlyCandidatesAtMostTopK ==
    (ret.op = "semantic_search" /\ ret.ids.given) =>
        /\ \A i \in 1..Len(ret.value) : InList(ret.value[i].id, ret.ids.list)
        /\ Len(ret.value) <= ret.limit

\* C2: the list search returns is sorted: of two adjacent results the first
\* has the greater semantic_score, or the same score and a price that is
\* not smaller, a missing price counting as 0.
C2_ResultSorted ==
    Returned("search") =>
        \A i \in 1..(Len(ret.value) - 1) :
            LET a == ret.value[i]
                b == ret.value[i + 1]
            IN  \/ a.semantic_score > b.semantic_score
                \/ a.semantic_score = b.semantic_score /\ PriceOrZero(a) >= PriceOrZero(b)

\* a search with a query returned two results of one score in price order,
\* the second without a price
C2_Witness ==
    /\ Returned("search")
    /\ HasQuery(ret.query)
    /\ Len(ret.value) >= 2
    /\ ret.value[1].semantic_score = ret.value[2].semantic_score
    /\ ret.value[1].price.t = "num" /\ ret.value[1].price.n > 0
    /\ ret.value[2].price.t = "absent"

\* C5: search returns at most limit results, for every limit >= 0, with or
\* without a query, for every scope.
C5_AtMostLimit == Returned("search") => Len(ret.value) <= ret.limit

\* a search over both scopes whose scopes each contributed limit results
C5_Witness ==
    /\ Returned("search")
    /\ ret.scope = "both"
    /\ ret.limit >= 1
    /\ Len(ret.calls) = 2
    /\ \A i \in 1..2 : Len(ret.calls[i].combined) = ret.limit
    /\ Len(ret.value) = ret.limit


\* the call carried a free-text query: a string with a character that is
\* not white space
NonBlank(query) == query.t = "str" /\ \E i \in 1..Len(query.s) : query.s[i] # " "

\* what the Structured Filter returns for a scope during the call in ret
FilteredFor(scope, limit) ==
    MongodbFilter(store[scope], ret.filters, limit, ~StoreDown(ret.fail, scope))

\* what the reranker returns for a scope during the call in ret
RerankedFor(scope) ==
    LET filtered == FilteredFor(scope, MongoPoolLimit)
        ids == [j \in 1..Len(filtered) |-> filtered[j]._id]
    IN  SemanticSearch(index, ret.query.s, scope, IdList(ids), Min(ret.limit, Len(ids)),
                       ret.fail # "index")

\* C6: with a non-blank query every result of search is a listing the
\* Structured Filter returned for its scope and the reranker returned for
\* that scope, carrying the reranker's score for its id; a filtered listing
\* the reranker did not return is not in the result.
C6_FilteredAndReranked ==
    (Returned("search") /\ NonBlank(ret.query)) =>
        \A i \in 1..Len(ret.value) :
            LET r == ret.value[i]
                reranked == RerankedFor(r.collection_type)
            IN  /\ InList(Untag(r), FilteredFor(r.collection_type, MongoPoolLimit))
                /\ \E j \in 1..Len(reranked) :
                      reranked[j].id = r._id /\ reranked[j].score = r.semantic_score

\* a search with a query returned a result although the reranker did not
\* return every filtered listing of the scope
C6_Witness ==
    /\ Returned("search")
    /\ NonBlank(ret.query)
    /\ ret.value # <<>>
    /\ \E i \in 1..Len(ret.calls) :
          /\ ret.calls[i].combined # <<>>
          /\ Len(ret.calls[i].vector_results) < Len(ret.calls[i].mongo_results)
          /\ Len(ret.calls[i].vector_results) < ret.limit

\* the candidates of a search without a query: per scope what the filter
\* returned under the caller's limit, rent before sale
Candidates ==
    LET scopes == IF ret.scope \in Scopes THEN <<ret.scope>> ELSE <<"rent", "sale">>
    IN  Concat([i \in 1..Len(scopes) |-> FilteredFor(scopes[i], ret.limit)])

\* C7 as claimed: without a query the result is the filter output in store
\* order (rent then sale), cut to limit, not reordered.
C7_StoreOrder ==
    (Returned("search") /\ ~NonBlank(ret.query) /\ ret.fail = "none") =>
        [i \in 1..Len(ret.value) |-> Untag(ret.value[i])] = Prefix(Candidates, ret.limit)

\* candidate j comes before candidate k in the result: it is dearer, or as
\* dear and earlier in store order
Outranks(j, k) ==
    \/ PriceOrZero(Candidates[j]) > PriceOrZero(Candidates[k])
    \/ PriceOrZero(Candidates[j]) = PriceOrZero(Candidates[k]) /\ j < k

\* C7 as amended: without a query the list search returns holds the filter
\* output (rent then sale) in order of descending price, a missing price
\* counting as 0 and listings of one price keeping store order, cut to limit.
C7_PriceOrder ==
    (Returned("search") /\ ~NonBlank(ret.query)) =>
        /\ Len(ret.value) = Min(ret.limit, Len(Candidates))
        /\ \A i \in 1..Len(ret.value) :
              \E k \in 1..Len(Candidates) :
                  /\ Untag(ret.value[i]) = Candidates[k]
                  /\ Cardinality({j \in 1..Len(Candidates) : Outranks(j, k)}) = i - 1

\* a search without a query returned listings in another order than the
\* store's
C7_Witness ==
    /\ Returned("search")
    /\ ~NonBlank(ret.query)
    /\ Len(ret.value) >= 2
    /\ [i \in 1..Len(ret.value) |-> Untag(ret.value[i])] # Prefix(Candidates, ret.limit)

\* C8: a result is tagged hybrid_match exactly when the call had a query,
\* filter_match with score 0 exactly when it had none (an empty or blank
\* query is none), and its collection_type is the collection it is from.
C8_ProvenanceTags ==
    Returned("search") =>
        \A i \in 1..Len(ret.value) :
            LET r == ret.value[i]
            IN  /\ (r.search_relevance = "hybrid_match") <=> NonBlank(ret.query)
                /\ (r.search_relevance = "filter_match" /\ r.semantic_score = 0)
                       <=> ~NonBlank(ret.query)
                /\ r.collection_type \in Scopes
                /\ InList(Untag(r), store[r.collection_type])

\* a search with a blank query returned results
C8_Witness ==
    /\ Returned("search")
    /\ ret.query = VStr(<<" ">>)
    /\ ret.value # <<>>


\* text occurs in the field, letter case ignored
ContainsText(field, text) ==
    /\ field.t = "str"
    /\ \E start \in 0..(Len(field.s) - Len(text.s)) :
          \A i \in 1..Len(text.s) : Lower(field.s[start + i]) = Lower(text.s[i])

\* a year field (a string of digits) is at least / at most a year
YearAtLeast(field, year) == field.t = "str" /\ StrLeq(PyStr(year), field.s)

YearAtMost(field, year) == field.t = "str" /\ StrLeq(field.s, PyStr(year))

\* the constraint one supplied criterion puts on a listing
Constrains(c, d) ==
    CASE c.v.t = "none" -> TRUE
      [] c.k = "city" -> ContainsText(d.city, c.v)
      [] c.k = "rooms" ->
            d.room_count.t = "num" /\
            (IF c.v.t = "list" THEN d.room_count.n \in c.v.l ELSE d.room_count.n = c.v.n)
      [] c.k = "min_price" -> d.price.t = "num" /\ d.price.n >= c.v.n
      [] c.k = "max_price" -> d.price.t = "num" /\ d.price.n <= c.v.n
      [] c.k = "min_area" -> d.space_sm.t = "num" /\ d.space_sm.n >= c.v.n
      [] c.k = "max_area" -> d.space_sm.t = "num" /\ d.space_sm.n <= c.v.n
      [] c.k = "building_type" -> d.building_type = c.v
      [] c.k \in {"min_year", "min_build_year"} -> YearAtLeast(d.build_year, c.v.n)
      [] c.k = "max_build_year" -> YearAtMost(d.build_year, c.v.n)
      [] OTHER -> d.has_garage = c.v

\* the listing satisfies every criterion supplied
SatisfiesAll(filters, d) == \A i \in 1..Len(filters) : Constrains(filters[i], d)

\* C9: _mongodb_filter returns exactly the first limit listings, in store
\* order, that satisfy every supplied constraint (a limit of 0 is read
\* as MongoDB reads it: no limit): a bound of 0, a room count of 0 and a
\* min_year beside min_build_year / max_build_year constrain as well.
C9_EveryConstraintApplies ==
    (ret.op = "filter" /\ ret.fail = "none") =>
        ret.value = MongoLimit(SelectSeq(store[ret.scope],
                                         LAMBDA d : SatisfiesAll(ret.filters, d)),
                               ret.limit)

\* the criteria hold equality fields only, each once
EqualityOnly(filters) ==
    /\ \A i \in 1..Len(filters) :
          filters[i].k \in {"rooms", "building_type", "has_garage"} /\ filters[i].v.t # "list"
    /\ \A i, j \in 1..Len(filters) : i # j => filters[i].k # filters[j].k

\* the same dict built in every insertion order
Orders(filters) ==
    {q \in [1..Len(filters) -> {filters[i] : i \in 1..Len(filters)}] :
        \A i \in 1..Len(filters) : \E j \in 1..Len(q) : q[j] = filters[i]}

\* C10: for criteria of non-overlapping equality fields the query
\* _mongodb_filter builds, and so its result, is the same for every
\* insertion order of the fields.
C10_InsertionOrderIrrelevant ==
    (ret.op = "filter" /\ EqualityOnly(ret.filters)) =>
        \A q \in Orders(ret.filters) :
            /\ BuildQuery(q) = BuildQuery(ret.filters)
            /\ MongodbFilter(store[ret.scope], q, ret.limit, ret.fail = "none") = ret.value

\* a filter call with two equality criteria returned some listings of the
\* collection and not others
C10_Witness ==
    /\ ret.op = "filter"
    /\ EqualityOnly(ret.filters)
    /\ Len(ret.filters) >= 2
    /\ ret.limit = 0
    /\ ret.value # <<>>
    /\ Len(ret.value) < Len(store[ret.scope])


\* the records of the index whose key or metadata id is k
RecordsOf(k) == {i \in 1..Len(index) : index[i].key = k \/ index[i].metadata.id = k}

\* C3: after any sequence of adds the index holds at most one record per
\* id, and it is the record the first successful add for the id wrote: a
\* later add with the id leaves content and metadata as they were.
C3_FirstAddWins ==
    \A k \in Keys :
        /\ Cardinality(RecordsOf(k)) <= 1
        /\ \A i \in RecordsOf(k) : first[k] = <<index[i]>>
        /\ first[k] # <<>> => RecordsOf(k) # {}

\* populate ran over a rent collection that holds the offer IDa with its
\* new text, and the index still holds the text of the first add
C3_Witness ==
    /\ ret.op = "populate" /\ ret.cap = 0 /\ ret.fail = "none"
    /\ \E i \in 1..Len(store.rent) : store.rent[i] = ItemA2
    /\ \E i \in 1..Len(index) :
          /\ index[i].key = "IDa"
          /\ index[i].content = CreateListingText(ItemA)
          /\ index[i].metadata.collection_type = "sale"

\* C4: populate_from_mongo run twice in a row over an unchanged store, with
\* the same cap and no backend failure, leaves the index after the second
\* run as it was after the first.
C4_PopulateIdempotent ==
    [][(ret'.op = "populate" /\ ret'.runs = 2) => index' = index]_vars

\* populate has just run a second time, over a store with listings, some of
\* them beyond the cap
C4_Witness ==
    /\ ret.op = "populate" /\ ret.runs = 2 /\ ret.cap = 1
    /\ Len(store.rent) = 2 /\ Len(store.sale) >= 1
    /\ Len(index) >= 2

\* the criteria are a city text alone
CityOnly(filters) ==
    /\ Len(filters) = 1
    /\ filters[1].k = "city"
    /\ filters[1].v.t = "str" /\ filters[1].v.s # <<>>

\* C11: a city criterion matches a listing exactly when its text occurs in
\* the listing's city, letter case ignored: _mongodb_filter called with a
\* city text alone returns the first limit listings whose city contains
\* the text, and no listing whose city does not contain it.
C11_SubstringMatch ==
    (ret.op = "filter" /\ ret.fail = "none" /\ CityOnly(ret.filters)) =>
        ret.value = MongoLimit(SelectSeq(store[ret.scope],
                                         LAMBDA d : ContainsText(d.city, ret.filters[1].v)),
                               ret.limit)

\* the scopes a listing type asks for
Requested(listing_type) == IF listing_type \in Scopes THEN {listing_type} ELSE Scopes

\* C12: every result of search is a listing of a collection the listing
\* type asks for and is tagged with that collection; with "both" each
\* collection is queried as it is when searched alone, the rent results and
\* the sale results are put together, and then ranked.
C12_ScopeSelection ==
    Returned("search") =>
        LET alone(scope) == Search(store, index, ret.filters, ret.query, scope,
                                   ret.limit, ret.fail).calls
            together == alone("rent") \o alone("sale")
        IN  /\ \A i \in 1..Len(ret.value) :
                  /\ ret.value[i].collection_type \in Requested(ret.scope)
                  /\ InList(Untag(ret.value[i]), store[ret.value[i].collection_type])
            /\ \A i \in 1..Len(ret.calls) : ret.calls[i].scope \in Requested(ret.scope)
            /\ ret.scope \in Scopes => ret.calls = alone(ret.scope)
            /\ ret.scope = "both" =>
                  /\ ret.calls = together
                  /\ ret.value =
                        RankAndLimitResults(together[1].combined \o together[2].combined,
                                            ret.limit).value

\* a search over both collections returned a rent listing and a sale listing
C12_Witness ==
    /\ Returned("search")
    /\ ret.scope = "both"
    /\ \E i, j \in 1..Len(ret.value) :
          ret.value[i].collection_type = "rent" /\ ret.value[j].collection_type = "sale"

\* C13: search never raises to its caller: whatever the store and the index
\* hold (a price that is null or missing, listings missing from the index,
\* an empty index) and whether or not the backends answer, it returns a list.
C13_SearchNeverRaises == ret.op = "search" => ~ret.raised

\* C14: a backend failure gives an empty contribution, not an exception: a
\* _mongodb_filter whose store query fails returns [], a semantic_search
\* whose index query fails returns [], and a search over both collections
\* in which the rent query fails still searches the sale collection and
\* returns what the search of the sale collection alone returns; a search
\* with a query whose index is down returns an empty list.
C14_FailureGivesEmpty ==
    /\ (ret.op = "filter" /\ ret.fail = "mongo") => ret.value = <<>>
    /\ (ret.op = "semantic_search" /\ ret.fail = "index") => ret.value = <<>>
    /\ (ret.op = "search" /\ ret.fail = "mongo:rent" /\ ret.scope = "both") =>
          LET sale == Search(store, index, ret.filters, ret.query, "sale", ret.limit, "none")
          IN  /\ Len(ret.calls) = 2
              /\ ret.calls[1].mongo_results = <<>> /\ ret.calls[1].combined = <<>>
              /\ ret.calls[2] = sale.calls[1]
              /\ ret.raised = sale.raised /\ ret.value = sale.value
    /\ (ret.op = "search" /\ ret.fail = "index" /\ NonBlank(ret.query)) =>
          /\ \A i \in 1..Len(ret.calls) : ret.calls[i].vector_results = <<>>
          /\ ~ret.raised /\ ret.value = <<>>

\* the rent query failed during a search over both collections, the rent
\* collection holds listings, and the search returned sale listings
C14_Witness ==
    /\ Returned("search")
    /\ ret.fail = "mongo:rent" /\ ret.scope = "both"
    /\ store.rent # <<>>
    /\ ret.value # <<>>
    /\ \A i \in 1..Len(ret.value) : ret.value[i].collection_type = "sale"

\* a bound on price or area whose value is not a number
Malformed(c) ==
    /\ c.k \in {"min_price", "max_price", "min_area", "max_area"}
    /\ c.v.t \notin {"num", "none"}

\* C15: _mongodb_filter drops a malformed constraint and applies the others:
\* it returns what it returns for the same criteria without the malformed
\* fields.
C15_MalformedDropped ==
    (ret.op = "filter" /\ ret.fail = "none") =>
        ret.value = MongodbFilter(store[ret.scope],
                                  SelectSeq(ret.filters, LAMBDA c : ~Malformed(c)),
                                  ret.limit, TRUE)

\* the distance the index gives the embedding record of a listing from the
\* query of the call in ret: the smaller, the more similar
Judged(id) ==
    Distance(ret.query.s, index[CHOOSE i \in 1..Len(index) : index[i].key = id].content)

\* C16: if the index judges listing a strictly more similar to the query
\* than listing b and both are in the output, a comes before b, in the list
\* semantic_search returns and in the list search returns.
C16_OrientationPreserved ==
    /\ Returned("semantic_search") =>
          \A i, j \in 1..Len(ret.value) :
              Judged(ret.value[i].id) < Judged(ret.value[j].id) => i < j
    /\ (Returned("search") /\ NonBlank(ret.query)) =>
          \A i, j \in 1..Len(ret.value) :
              Judged(ret.value[i]._id) < Judged(ret.value[j]._id) => i < j

\* the pool the index returned during the semantic_search call in ret, in
\* the order the index returned it
Pool ==
    SimilaritySearchWithScore(index, ret.query.s, SearchK(ret.ids, ret.limit), ret.scope)

Surviving ==
    SelectSeq(Pool, LAMBDA p : ~IdsTruthy(ret.ids) \/ InList(p.doc.metadata.id, ret.ids.list))

Populated ==
    (IF ret.cap # 0 THEN MongoLimit(store.rent, ret.cap) ELSE store.rent)
    \o (IF ret.cap # 0 THEN MongoLimit(store.sale, ret.cap) ELSE store.sale)

\* C18: a backend failure while populate_from_mongo processes one listing,
\* in the existence check or in the insert, does not abort the rebuild:
\* populate returns normally and every other listing has been added.
C18_PopulateContinues ==
    ret.op = "populate" =>
        /\ ~ret.raised
        /\ \A i \in 2..Len(Populated) : DbGet(index, Populated[i]._id) # {}

\* the id process_item stores an item under
StoredId(item) == IF item._id = "" THEN Md5(item.link) ELSE item._id

\* C19: no listing without an id is persisted: every document of the store
\* has a non-empty id, which is the id of the item it came from or, when
\* the item had none, the MD5 hash of its link; and the index holds no
\* record of a listing without an id.
C19_NoListingWithoutId ==
    /\ \A s \in Scopes : \A i \in 1..Len(store[s]) :
          /\ store[s][i]._id # ""
          /\ \E item \in IngestItems :
                item.link = store[s][i].link /\ store[s][i]._id = StoredId(item)
    /\ \A i \in 1..Len(index) : index[i].key # "" /\ index[i].metadata.id # ""
    /\ (ret.op = "process_item" /\ ret.item[1]._id = "") =>
          \A s \in Scopes : \A i \in 1..Len(store[s]) : store[s][i] # ret.item[1]

\* add was called with a listing without an id, after an item without an id
\* went through the pipeline and was stored under the hash of its link
C19_Witness ==
    /\ ret.op = "add" /\ ret.item = <<ItemD>>
    /\ \E i \in 1..Len(store.sale) :
          store.sale[i]._id = Md5(Join(LinkD)) /\ store.sale[i].link = Join(LinkD)

\* the offer a listing describes: the offer its link leads to; the two
\* offers without a link are told apart by the area of the flat
Offer(d) ==
    IF d.link # Join(NoLink) THEN d.link
    ELSE IF d.space_sm = ItemN1.space_sm THEN "n1" ELSE "n2"

\* C20: ids are unique within a scope and stable: process_item changes a
\* stored record only when it is handed the same offer again (and then adds
\* no second record), so ingesting one listing never overwrites another.
C20_NeverOverwritesAnother ==
    [][ret'.op = "process_item" =>
          \A s \in Scopes : \A i \in 1..Len(store[s]) :
              /\ store'[s][i]._id = store[s][i]._id
              /\ store'[s][i] # store[s][i] => Offer(store[s][i]) = Offer(ret'.item[1])]_vars

\* the embedding records of the listing (scope, id): those stored under the
\* id whose collection_type is the scope
RecordsIn(idx, scope, id) ==
    {i \in 1..Len(idx) : idx[i].key = id /\ idx[i].metadata.collection_type = scope}

\* C21: the Embedding Record is a one-to-one projection of a Listing keyed by
\* id and scope: after a populate without cap and without failure every
\* listing of the store has exactly one record under its id that carries
\* its own scope, and so has an item with text that process_item has just
\* stored or changed and passed to add, also when a rent listing and a sale
\* listing have the same id.
C21_OneRecordPerListing ==
    [][/\ (ret'.op = "populate" /\ ret'.cap = 0 /\ ret'.fail = "none") =>
             \A s \in Scopes : \A i \in 1..Len(store[s]) :
                 Cardinality(RecordsIn(index', s, store[s][i]._id)) = 1
       /\ (ret'.op = "process_item" /\ ret'.fail = "none" /\ store' # store
              /\ HasTextContent(ret'.item[1])) =>
             Cardinality(RecordsIn(index', ret'.scope, StoredId(ret'.item[1]))) = 1]_vars

\* C22: a search does not mutate shared state: search and semantic_search
\* leave the store and the index as they were, and the documents the filter
\* returned are at the end of the call still the documents of the store,
\* without semantic_score, collection_type or search_relevance: the tags
\* are on copies.
C22_SearchReadOnly ==
    [][ret'.op \in {"search", "semantic_search"} =>
          /\ store' = store /\ index' = index
          /\ \A i \in 1..Len(ret'.calls) :
                LET c == ret'.calls[i]
                IN  /\ c.mongo_results =
                          MongodbFilter(store[c.scope], ret'.filters, c.mongo_limit,
                                        ~StoreDown(ret'.fail, c.scope))
                    /\ \A j \in 1..Len(c.mongo_results) :
                          InList(c.mongo_results[j], store[c.scope])]_vars

\* a search with a query returned a tagged copy of a document the filter
\* returned
C22_Witness ==
    /\ Returned("search")
    /\ NonBlank(ret.query)
    /\ \E i \in 1..Len(ret.calls), j \in 1..Len(ret.value) :
          /\ ret.value[j].search_relevance = "hybrid_match"
          /\ InList(Untag(ret.value[j]), ret.calls[i].mongo_results)
          /\ ~InList(ret.value[j], ret.calls[i].mongo_results)

\* C23 as claimed: populate_from_mongo honours the record cap: run with cap
\* n > 0 over an empty index it passes at most n listings in total to add,
\* so the index holds at most n records afterwards; run without cap it
\* passes every rent listing and every sale listing of the store, so each
\* has a record afterwards.
C23_CapInTotal ==
    [][(ret'.op = "populate" /\ ret'.fail = "none") =>
          /\ (ret'.cap # 0 /\ index = <<>>) => Len(index') <= ret'.cap
          /\ ret'.cap = 0 =>
                \A s \in Scopes : \A i \in 1..Len(store[s]) :
                    DbGet(index', store[s][i]._id) # {}]_vars

\* the ids of the first n listings of each collection
FirstOfEach(n) ==
    UNION {{store[s][j]._id : j \in 1..Min(n, Len(store[s]))} : s \in Scopes}

\* C23 as amended: the cap of populate_from_mongo is a cap per collection:
\* run with cap n > 0 over an empty index it passes the first n rent
\* listings and the first n sale listings to add, at most 2n in total, and
\* the index holds the records of exactly these afterwards; run without cap
\* it passes every rent listing and every sale listing of the store.
C23_CapPerScope ==
    [][(ret'.op = "populate" /\ ret'.fail = "none") =>
          /\ (ret'.cap # 0 /\ index = <<>>) =>
                /\ \A k \in Keys : DbGet(index', k) # {} <=> k \in FirstOfEach(ret'.cap)
                /\ Len(index') <= 2 * ret'.cap
          /\ ret'.cap = 0 =>
                \A s \in Scopes : \A i \in 1..Len(store[s]) :
                    DbGet(index', store[s][i]._id) # {}]_vars

\* populate with cap 1 ran over two full collections and the index holds
\* the first rent listing and the first sale listing, two records for a cap
\* of one
C23_Witness ==
    /\ ret.op = "populate" /\ ret.cap = 1 /\ ret.runs = 1 /\ ret.fail = "none"
    /\ Len(store.rent) = MaxListings /\ Len(store.sale) = MaxListings
    /\ Len(index) = 2
    /\ {index[i].key : i \in 1..2} = {store.rent[1]._id, store.sale[1]._id}
    /\ index[1].metadata.collection_type = "rent"
    /\ index[2].metadata.collection_type = "sale"

\* C24: the reranker is invoked for a scope only after the Structured Filter
\* returned at least one id for it: a scope whose filter returned nothing
\* (no match, or the store failed) is not reranked and contributes nothing,
\* and the search goes on to the next scope, which is searched as it is
\* when the filter of the first scope returns listings.
C24_NoRerankWithoutIds ==
    ret.op = "search" =>
        /\ Len(ret.calls) = Cardinality(Requested(ret.scope))
        /\ \A i \in 1..Len(ret.calls) :
              LET c == ret.calls[i]
              IN  /\ c.mongo_results = FilteredFor(c.scope, c.mongo_limit)
                  /\ c.mongo_results = <<>> =>
                        ~c.reranked /\ c.vector_results = <<>> /\ c.combined = <<>>
                  /\ c.reranked <=> (c.mongo_results # <<>> /\ NonBlank(ret.query))
        /\ ret.scope = "both" =>
              ret.calls[2] = SearchScope(store, index, ret.filters, ret.query, "sale",
                                         ret.limit, ret.fail)

\* a search with a query over both collections: the filter found nothing
\* among the rent listings, the sale listings were reranked and returned
C24_Witness ==
    /\ Returned("search")
    /\ NonBlank(ret.query) /\ ret.fail = "none"
    /\ store.rent # <<>>
    /\ Len(ret.calls) = 2
    /\ ret.calls[1].mongo_results = <<>> /\ ~ret.calls[1].reranked
    /\ ret.calls[2].reranked /\ ret.calls[2].combined # <<>>
    /\ ret.value # <<>>

\* the documents of the pool whose id is in the candidate id list of the
\* semantic_search call in ret, in pool order
Members == SelectSeq(Pool, LAMBDA p : InList(p.doc.metadata.id, ret.ids.list))

\* C25: semantic_search discards the non-members of the candidate id list
\* before it truncates: called with a candidate id list it returns exactly
\* the first min(top_k, m) documents of the pool, in pool order, whose id is
\* in the list, m being the number of such documents in the pool; no member
\* in the pool is lost to non-members ranked ahead of it.
C25_DiscardBeforeTruncate ==
    (Returned("semantic_search") /\ ret.ids.given /\ ret.fail = "none") =>
        /\ Len(ret.value) = Min(ret.limit, Len(Members))
        /\ \A i \in 1..Len(ret.value) :
              /\ ret.value[i].id = Members[i].doc.metadata.id
              /\ ret.value[i].score = Members[i].score

\* C26: the pool size k semantic_search requests from the index is at least
\* 10 * top_k whenever a candidate id list is supplied, and exactly top_k
\* when none is supplied.
C26_PoolSize ==
    ret.op = "semantic_search" =>
        /\ ret.ids.given => SearchK(ret.ids, ret.limit) >= 10 * ret.limit
        /\ ~ret.ids.given => SearchK(ret.ids, ret.limit) = ret.limit

\* C27: in search the Structured Filter runs per scope with the enlarged
\* pool limit, whatever the caller's limit, when the query is non-blank, and
\* with exactly the caller's limit otherwise; with a query the reranker is
\* asked for top_k = min(limit, number of filtered ids), so a listing beyond
\* the first limit filter matches can reach the result.
C27_EnlargedPool ==
    ret.op = "search" =>
        \A i \in 1..Len(ret.calls) :
            LET c == ret.calls[i]
                expected == IF NonBlank(ret.query) THEN 10000 ELSE ret.limit
            IN  /\ c.mongo_limit = expected
                /\ c.mongo_results = FilteredFor(c.scope, expected)
                /\ c.reranked =>
                      /\ c.top_k = Min(ret.limit, Len(c.mongo_results))
                      /\ c.vector_results =
                            SemanticSearch(index, ret.query.s, c.scope,
                                           IdList([j \in 1..Len(c.mongo_results) |->
                                                      c.mongo_results[j]._id]),
                                           Min(ret.limit, Len(c.mongo_results)),
                                           ret.fail # "index")

\* a search with a query and limit 1 returned the second of two filter
\* matches of a collection
C27_Witness ==
    /\ Returned("search")
    /\ NonBlank(ret.query) /\ ret.limit = 1
    /\ Len(ret.calls) = 1
    /\ Len(ret.calls[1].mongo_results) = 2
    /\ Len(ret.value) = 1
    /\ Untag(ret.value[1]) = ret.calls[1].mongo_results[2]

\* C28: a listing with text that process_item ingests while the store and
\* the index answer has an Embedding Record afterwards, also when an earlier
\* ingestion stored it without embedding it and it is ingested again
\* unchanged.
C28_IndexCatchesUp ==
    (ret.op = "process_item" /\ ret.fail = "none" /\ HasTextContent(ret.item[1])) =>
        DbGet(index, StoredId(ret.item[1])) # {}

\* C29: ingestion writes the store before the index, and only on success:
\* a process_item whose upsert fails changes neither the store nor the
\* index, and after any sequence of process_item and populate_from_mongo
\* calls every id in the index is the id of a record in the rent or the
\* sale collection.
C29_IndexWithinStore ==
    [][/\ \A i \in 1..Len(index') :
             \E s \in Scopes : \E j \in 1..Len(store'[s]) : store'[s][j]._id = index'[i].key
       /\ (ret'.op = "process_item" /\ ret'.fail = "mongo") =>
             store' = store /\ index' = index]_vars

\* the store refused the upsert of an item while the index held the records
\* of other listings, and the index holds none for the item
C29_Witness ==
    /\ ret.op = "process_item" /\ ret.fail = "mongo"
    /\ index # <<>>
    /\ DbGet(index, ret.item[1]._id) = {}
    /\ \A s \in Scopes : \A j \in 1..Len(store[s]) : store[s][j]._id # ret.item[1]._id

\* C30: a listing type other than rent or sale is treated as both: a search
\* called with "buy" queries the rent and the sale collection, returns what
\* the same search with "both" returns, and can return rent listings.
C30_UnknownTypeIsBoth ==
    (ret.op = "search" /\ ret.scope \notin {"rent", "sale"}) =>
        LET both == Search(store, index, ret.filters, ret.query, "both", ret.limit, ret.fail)
        IN  /\ Len(ret.calls) = 2
            /\ ret.calls[1].scope = "rent" /\ ret.calls[2].scope = "sale"
            /\ ret.calls[1].mongo_results = FilteredFor("rent", ret.calls[1].mongo_limit)
            /\ ret.calls[2].mongo_results = FilteredFor("sale", ret.calls[2].mongo_limit)
            /\ ret.calls = both.calls
            /\ ret.raised = both.raised /\ ret.value = both.value

\* a search for listings to buy returned a rent listing
C30_Witness ==
    /\ Returned("search")
    /\ ret.scope = "buy"
    /\ \E i \in 1..Len(ret.value) : ret.value[i].collection_type = "rent"

=============================================================================
